---- MODULE Spec2Model ----
(***************************************************************************)
(* The crawl engine of app/crawler/crawler.go: Run (lifecycle), run (the   *)
(* dispatch loop), one goroutine per admitted request running Process,     *)
(* and Stop.  The request source (spider.Spider), the downloader, the      *)
(* parser, the pipeline and the counters of runtime/cache are the engine's *)
(* collaborators; their results are nondeterministic choices.              *)
(***************************************************************************)
EXTENDS Integers, Naturals, Sequences, FiniteSets, TLC

\* ---------------------------------------------------------------- bounds
\* requests the source enqueues in one Run, retries included
MaxTasks == 2
\* items / files one Context yields at most
MaxItems == 1
MaxFiles == 1
\* the pause times, in milliseconds, an engine is configured with: every
\* one up to MaxPause, and 1000
MaxPause == 6
\* the slot budgets the source may be configured with: 1 makes every
\* acquire wait for the task before, 2 lets two tasks run together
SlotCaps == {1, 2}

\* spider.ACTIVE_STOP, the payload of the cancellation panic
ACTIVE_STOP == "ACTIVE_STOP"

TaskIds == 1..MaxTasks

\* panic payloads: a Go interface value is a dynamic type and a value
NoPanic == [isString |-> FALSE, val |-> "none"]
Payloads ==
    { [isString |-> TRUE,  val |-> ACTIVE_STOP],
      [isString |-> TRUE,  val |-> "fault"],
      [isString |-> FALSE, val |-> ACTIVE_STOP] }

\* what a collect call of the pipeline may panic with
SinkPayloads ==
    { [isString |-> TRUE, val |-> ACTIVE_STOP],
      [isString |-> TRUE, val |-> "fault"] }

\* the history once a run has left the all-succeed scenario
Dirty(h) == [h EXCEPT !.dirty = TRUE, !.data = 0]

VARIABLES
    runPc,        \* position of Run
    loopPc,       \* position of run, the dispatch loop
    lastPull,     \* what the GetOne of this iteration returned: "none" | "req" | "nil"
    lastCanStop,  \* what the CanStop of this iteration returned
    pullSaw,      \* what this iteration's pull came after: a swallowed marker, a
                  \* recovered fault, an empty pull in the iteration before
    tasks,        \* the goroutines spawned by run, by spawn number
    pending,      \* requests waiting in the source
    produced,     \* requests the source has enqueued so far
    stopped,      \* Spider.Stop has been called
    pulled,       \* non-nil results of GetOne
    acquired,     \* calls of RequestUse
    spawned,      \* go statements executed by run
    released,     \* calls of RequestFree
    slotCap,      \* slots the source lets the engine hold at a time
    pipeState,    \* "new" | "started" | "stopped"
    pipeStops,    \* calls of Pipeline.Stop
    lateCollect,  \* a collect call was made while the pipeline was not started
    succCount,    \* cache.PageSuccCount calls
    failCount,    \* cache.PageFailCount calls
    hist,         \* DoHistory calls: succ (req, true), failTrue (req, false) that returned true
    crashed,      \* a panic left a goroutine: the process is dead
    unit,         \* what the numbers of pausetime, pause and delay count: "ms",
                  \* milliseconds, or "2^43ms", multiples of 2^43 milliseconds
    pausetime,    \* cache.Task.Pausetime, an int64
    pause,        \* the engine's pause [2]int64: << base, spread >>
    delay,        \* the sleeptime of the loop's last sleep, << >> before the first
    slept,        \* sleep calls since the loop's last pull, -1 before the first pull
    seen          \* history of this Run: stopInFlight, Stop was called with tasks in
                  \* flight; dirty, a fetch failed, a call panicked, Stop was called
                  \* or a Context did not yield one item and no file; data, the
                  \* CollectData calls the sink took while the run was not dirty

vars == << runPc, loopPc, lastPull, lastCanStop, pullSaw, tasks, pending, produced,
           stopped, pulled, acquired, spawned, released, slotCap, pipeState,
           pipeStops,
           lateCollect, succCount, failCount, hist,
           crashed, unit, pausetime, pause, delay, slept, seen >>

runVars  == << runPc >>
loopVars == << loopPc, lastPull, lastCanStop, pullSaw, slept, delay >>
srcVars  == << pending, produced, stopped >>
slotVars == << pulled, acquired, spawned, released, slotCap >>
pipeVars == << pipeState, pipeStops, lateCollect >>
statVars == << succCount, failCount, hist >>
pauseVars == << unit, pausetime, pause >>

\* a goroutine that does not exist (not spawned yet, or gone)
Idle ==
    [ pc |-> "idle", panic |-> NoPanic, recovered |-> FALSE, raisedIn |-> "none",
      fetchErr |-> FALSE, parsed |-> FALSE,
      items |-> 0, files |-> 0, forwarded |-> FALSE,
      nSucc |-> 0, nFail |-> 0, nFailTrue |-> 0, succInc |-> 0, failInc |-> 0,
      swallowed |-> FALSE, pooled |-> 0 ]

NothingSeen == [swallow |-> FALSE, fault |-> FALSE, empty |-> FALSE]

InFlight == { t \in TaskIds : tasks[t].pc # "idle" }

\* ------------------------------------------------- int64 milliseconds
\* 2^64 milliseconds counted in multiples of 2^43 milliseconds: the values
\* an int64 tells apart
Int64Span == 2097152

\* the int64 that holds the integer x: x itself when the numbers count
\* milliseconds (every number the model then builds is below 2^31), and x
\* reduced modulo 2^64 into -2^63 .. 2^63 - 1 when they count multiples of
\* 2^43 milliseconds
Int64(x) ==
    IF unit = "ms"
    THEN x
    ELSE ((x + Int64Span \div 2) % Int64Span) - Int64Span \div 2

\* mutant of InitPause: the else branch is missing, so the spread of a
\* pause time below 2 stays the zero value of the array
InitPauseWithoutElse(P) ==
    LET base == P \div 2
    IN  << base, Int64(base * 3) >>

\* crawler.Init: self.pause[0] = cache.Task.Pausetime / 2, and pause[1] is
\* pause[0] * 3 when pause[0] > 0, else 1
InitPause(P) ==
    LET base == P \div 2
    IN  << base, IF base > 0 THEN Int64(base * 3) ELSE 1 >>

\* rand.Int63n(n) for n > 0: any of 0 .. n-1; of the multiples of 2^43 the
\* least and the greatest are drawn
Int63n(n) ==
    IF unit = "ms" THEN 0 .. n - 1 ELSE {0, n - 1}

\* crawler.New, and the collaborators before Run
New ==
    /\ runPc = "idle"
    /\ loopPc = "off"
    /\ lastPull = "none"
    /\ lastCanStop = FALSE
    /\ pullSaw = NothingSeen
    /\ tasks = [t \in TaskIds |-> Idle]
    /\ pending = 0
    /\ produced = 0
    /\ stopped = FALSE
    /\ pulled = 0
    /\ acquired = 0
    /\ spawned = 0
    /\ released = 0
    /\ slotCap \in SlotCaps
    /\ pipeState = "new"
    /\ pipeStops = 0
    /\ lateCollect = FALSE
    /\ succCount = 0
    /\ failCount = 0
    /\ hist = [succ |-> 0, failTrue |-> 0]
    /\ crashed = FALSE
    /\ delay = << >>
    /\ slept = -1
    /\ seen = [stopInFlight |-> FALSE, dirty |-> FALSE, data |-> 0]

\* the engine after New and Init with a pause time of 0
Init ==
    /\ New
    /\ unit = "ms"
    /\ pausetime = 0
    /\ pause = InitPause(pausetime)

\* ------------------------------------------------------ the request source
\* Spider.CanStop: stop was requested, or the producer is done, nothing is
\* queued and nothing is in flight
SourceCanStop ==
    \/ stopped
    \/ /\ runPc \in {"wait", "stopsink", "done"}
       /\ pending = 0
       /\ acquired = released

\* Spider.RequestPull: the results the source may give now
PullResults ==
    IF pending > 0 /\ ~stopped THEN {"req", "nil"} ELSE {"nil"}

\* Spider.DoHistory(req, false): the results the source may give now; FALSE
\* means the request goes back to the queue for another attempt
HistoryFailResults ==
    IF produced < MaxTasks THEN {TRUE, FALSE} ELSE {TRUE}

\* the effect of Spider.DoHistory(req, false) returning r on the source
RecordFailure(r) ==
    /\ pending' = IF r THEN pending ELSE pending + 1
    /\ produced' = IF r THEN produced ELSE produced + 1
    /\ stopped' = stopped
    /\ hist' = [hist EXCEPT !.failTrue = @ + (IF r THEN 1 ELSE 0)]

\* ------------------------------------------------------------------- Run
\* Run: self.Pipeline.Start()
PipelineStart ==
    /\ runPc = "idle"
    /\ runPc' = "launch"
    /\ pipeState' = "started"
    /\ UNCHANGED << loopVars, tasks, srcVars, slotVars, pipeStops,
                    lateCollect, statVars, crashed, pauseVars, seen >>

\* mutant of LaunchLoop: the go statement comes first in Run, before the
\* pipeline is started
LaunchLoopBeforeSink ==
    /\ runPc = "idle"
    /\ runPc' = "start"
    /\ loopPc' = "pull"
    /\ UNCHANGED << lastPull, lastCanStop, pullSaw, slept, delay, tasks,
                    srcVars, slotVars, pipeVars, statVars, crashed, pauseVars,
                    seen >>

\* Run: go func() { self.run(); close(c) }()
LaunchLoop ==
    /\ runPc = "launch"
    /\ runPc' = "start"
    /\ loopPc' = "pull"
    /\ UNCHANGED << lastPull, lastCanStop, pullSaw, slept, delay, tasks,
                    srcVars, slotVars, pipeVars, statVars, crashed, pauseVars,
                    seen >>

\* Run: self.Spider.Start() is entered
SpiderStart ==
    /\ runPc = "start"
    /\ runPc' = "starting"
    /\ UNCHANGED << loopVars, tasks, srcVars, slotVars, pipeVars, statVars,
                    crashed, pauseVars, seen >>

\* inside Spider.Start: the source enqueues one request
Produce ==
    /\ runPc = "starting"
    /\ ~stopped
    /\ produced < MaxTasks
    /\ pending' = pending + 1
    /\ produced' = produced + 1
    /\ UNCHANGED << runVars, loopVars, tasks, stopped, slotVars, pipeVars,
                    statVars, crashed, pauseVars, seen >>

\* Run: self.Spider.Start() returns
SpiderStartReturn ==
    /\ runPc = "starting"
    /\ runPc' = "wait"
    /\ UNCHANGED << loopVars, tasks, srcVars, slotVars, pipeVars, statVars,
                    crashed, pauseVars, seen >>

\* mutant of RunJoin: Run goes on to stop the pipeline without the receive
RunJoinNoWait ==
    /\ runPc = "wait"
    /\ runPc' = "stopsink"
    /\ UNCHANGED << loopVars, tasks, srcVars, slotVars, pipeVars, statVars,
                    crashed, pauseVars, seen >>

\* Run: <-c, the receive that close(c) releases
RunJoin ==
    /\ runPc = "wait"
    /\ loopPc = "closed"
    /\ runPc' = "stopsink"
    /\ UNCHANGED << loopVars, tasks, srcVars, slotVars, pipeVars, statVars,
                    crashed, pauseVars, seen >>

\* Run: self.Pipeline.Stop(), and Run returns
PipelineStop ==
    /\ runPc = "stopsink"
    /\ runPc' = "done"
    /\ pipeState' = "stopped"
    /\ pipeStops' = pipeStops + 1
    /\ UNCHANGED << loopVars, tasks, srcVars, slotVars, lateCollect, statVars,
                    crashed, pauseVars, seen >>

\* mutant of Stop: Stop also shuts the pipeline
StopAlsoStopsPipeline ==
    /\ runPc \in {"launch", "start", "starting", "wait"}
    /\ ~stopped
    /\ stopped' = TRUE
    /\ pipeState' = "stopped"
    /\ pipeStops' = pipeStops + 1
    /\ seen' = Dirty([seen EXCEPT !.stopInFlight = (InFlight # {})])
    /\ UNCHANGED << runVars, loopVars, tasks, pending, produced, slotVars,
                    lateCollect, statVars, crashed, pauseVars >>

\* Stop: self.Spider.Stop(), called from outside while Run is running
Stop ==
    /\ runPc \in {"launch", "start", "starting", "wait"}
    /\ ~stopped
    /\ stopped' = TRUE
    /\ seen' = Dirty([seen EXCEPT !.stopInFlight = (InFlight # {})])
    /\ UNCHANGED << runVars, loopVars, tasks, pending, produced, slotVars,
                    pipeVars, statVars, crashed, pauseVars >>

\* ------------------------------------------------------ the dispatch loop
\* run: req := self.GetOne(), and the test req == nil
GetOne ==
    /\ loopPc = "pull"
    /\ \E r \in PullResults :
          /\ lastPull' = r
          /\ loopPc' = IF r = "req" THEN "use" ELSE "canstop"
          /\ pending' = IF r = "req" THEN pending - 1 ELSE pending
          /\ pulled' = IF r = "req" THEN pulled + 1 ELSE pulled
          /\ pullSaw' = IF r = "req"
                         THEN [swallow |-> \E t \in TaskIds :
                                             tasks[t].pc = "free" /\ tasks[t].swallowed,
                               fault |-> \E t \in TaskIds :
                                             tasks[t].pc = "free" /\ tasks[t].nFail > 0
                                                /\ tasks[t].parsed,
                               empty |-> pullSaw.empty]
                         ELSE NothingSeen
    /\ lastCanStop' = FALSE
    /\ slept' = 0
    /\ UNCHANGED << runVars, delay, tasks, produced, stopped, acquired, spawned,
                    released, slotCap, pipeVars, statVars, crashed, pauseVars,
                    seen >>

\* mutant of CheckCanStop: the loop breaks on any empty pull
CheckCanStopBreaksOnEmpty ==
    /\ loopPc = "canstop"
    /\ lastCanStop' = SourceCanStop
    /\ loopPc' = "defer"
    /\ UNCHANGED << runVars, lastPull, pullSaw, slept, delay, tasks, srcVars, slotVars,
                    pipeVars, statVars, crashed, pauseVars, seen >>

\* mutant of CheckCanStop: the loop never breaks
CheckCanStopNeverBreaks ==
    /\ loopPc = "canstop"
    /\ lastCanStop' = SourceCanStop
    /\ loopPc' = "sleep"
    /\ UNCHANGED << runVars, lastPull, pullSaw, slept, delay, tasks, srcVars, slotVars,
                    pipeVars, statVars, crashed, pauseVars, seen >>

\* mutant of CheckCanStop: an empty pull that does not end the loop goes
\* straight to the next pull (a continue before the sleep)
CheckCanStopSkipsSleep ==
    /\ loopPc = "canstop"
    /\ lastCanStop' = SourceCanStop
    /\ loopPc' = IF SourceCanStop THEN "defer" ELSE "pull"
    /\ UNCHANGED << runVars, lastPull, pullSaw, slept, delay, tasks, srcVars, slotVars,
                    pipeVars, statVars, crashed, pauseVars, seen >>

\* run: if self.Spider.CanStop() { break }
CheckCanStop ==
    /\ loopPc = "canstop"
    /\ lastCanStop' = SourceCanStop
    /\ loopPc' = IF SourceCanStop THEN "defer" ELSE "sleep"
    /\ UNCHANGED << runVars, lastPull, pullSaw, slept, delay, tasks, srcVars, slotVars,
                    pipeVars, statVars, crashed, pauseVars, seen >>

\* mutant of UseOne: the acquire is made on a goroutine of its own, so the
\* loop does not wait for it
UseOneNotAwaited ==
    /\ loopPc = "use"
    /\ acquired' = acquired + 1
    /\ loopPc' = "spawn"
    /\ UNCHANGED << runVars, lastPull, lastCanStop, pullSaw, slept, delay,
                    tasks, srcVars, pulled, spawned, released, slotCap,
                    pipeVars, statVars, crashed, pauseVars, seen >>

\* run: self.UseOne(), which waits while the source's slots are all held
UseOne ==
    /\ loopPc = "use"
    /\ acquired - released < slotCap
    /\ acquired' = acquired + 1
    /\ loopPc' = "spawn"
    /\ UNCHANGED << runVars, lastPull, lastCanStop, pullSaw, slept, delay,
                    tasks, srcVars, pulled, spawned, released, slotCap,
                    pipeVars, statVars, crashed, pauseVars, seen >>

\* run: go func(req) { defer self.FreeOne(); self.Process(req) }(req)
Spawn ==
    /\ loopPc = "spawn"
    /\ spawned' = spawned + 1
    /\ tasks' = [tasks EXCEPT ![spawned + 1] =
                    [Idle EXCEPT !.pc = "start"]]
    /\ loopPc' = "sleep"
    /\ UNCHANGED << runVars, lastPull, lastCanStop, pullSaw, slept, delay,
                    srcVars, pulled, acquired, released, slotCap, pipeVars,
                    statVars, crashed, pauseVars, seen >>

\* mutant of Sleep: Process is called without the go statement, so the
\* loop gets to its sleep only when the task it started is over
SleepAfterProcess ==
    /\ loopPc = "sleep"
    /\ InFlight = {}
    /\ \E r \in Int63n(pause[2]) : delay' = << Int64(pause[1] + r) >>
    /\ slept' = slept + 1
    /\ loopPc' = "pull"
    /\ lastPull' = "none"
    /\ lastCanStop' = FALSE
    /\ pullSaw' = [NothingSeen EXCEPT !.empty = (lastPull = "nil")]
    /\ UNCHANGED << runVars, tasks, srcVars, slotVars, pipeVars, statVars,
                    crashed, pauseVars, seen >>

\* run: self.sleep() at the end of an iteration, then the next iteration;
\* sleep: sleeptime := self.pause[0] + rand.Int63n(self.pause[1]), where
\* Int63n panics on an argument that is not positive and the panic, raised
\* in the loop's goroutine, ends the process
Sleep ==
    /\ loopPc = "sleep"
    /\ IF pause[2] <= 0
       THEN /\ crashed' = TRUE
            /\ runPc' = "dead"
            /\ loopPc' = "dead"
            /\ tasks' = [u \in TaskIds |-> Idle]
            /\ UNCHANGED << lastPull, lastCanStop, pullSaw, slept, delay >>
       ELSE /\ \E r \in Int63n(pause[2]) : delay' = << Int64(pause[1] + r) >>
            /\ slept' = slept + 1
            /\ loopPc' = "pull"
            /\ lastPull' = "none"
            /\ lastCanStop' = FALSE
            /\ pullSaw' = [NothingSeen EXCEPT !.empty = (lastPull = "nil")]
            /\ UNCHANGED << runVars, tasks, crashed >>
    /\ UNCHANGED << srcVars, slotVars, pipeVars, statVars, pauseVars, seen >>

\* run: self.Spider.Defer() returns once no slot is held; then close(c)
Defer ==
    /\ loopPc = "defer"
    /\ acquired = released
    /\ loopPc' = "closed"
    /\ UNCHANGED << runVars, lastPull, lastCanStop, pullSaw, slept, delay,
                    tasks, srcVars, slotVars, pipeVars, statVars, crashed,
                    pauseVars, seen >>

\* --------------------------------------------------------------- Process
\* the task's record changed by the fields of e
Upd(t, e) ==
    [tasks EXCEPT ![t] = [f \in DOMAIN Idle |->
                            IF f \in DOMAIN e THEN e[f] ELSE tasks[t][f]]]

\* a panic is travelling up the goroutine's stack: raised and not recovered
Panicking(task) ==
    task.panic # NoPanic /\ ~task.recovered

\* mutant of IsActiveStop: the payload is compared without the type test
IsActiveStopAnyType(p) ==
    p.val = ACTIVE_STOP

\* Process: activeStop, _ := err.(string); activeStop == spider.ACTIVE_STOP
IsActiveStop(p) ==
    (IF p.isString THEN p.val ELSE "") = ACTIVE_STOP

\* Process: ctx = self.Downloader.Download(self.Spider, req), ctx.GetError()
Download(t) ==
    /\ tasks[t].pc = "start"
    /\ \E err \in BOOLEAN :
          /\ tasks' = Upd(t, [pc |-> IF err THEN "errhist" ELSE "parse",
                              fetchErr |-> err])
          /\ seen' = IF err THEN Dirty(seen) ELSE seen
    /\ UNCHANGED << runVars, loopVars, srcVars, slotVars, pipeVars, statVars,
                    crashed, pauseVars >>

\* mutant of ErrDoHistory: the return after the error log is missing, so a
\* failed fetch that was not counted goes on to Parse
ErrDoHistoryFallsThrough(t) ==
    /\ tasks[t].pc = "errhist"
    /\ \E r \in HistoryFailResults :
          /\ RecordFailure(r)
          /\ tasks' = Upd(t, [pc |-> IF r THEN "errcount" ELSE "parse",
                              nFail |-> tasks[t].nFail + 1,
                              nFailTrue |-> tasks[t].nFailTrue + (IF r THEN 1 ELSE 0)])
    /\ UNCHANGED << runVars, loopVars, slotVars, pipeVars, succCount,
                    failCount, crashed, pauseVars, seen >>

\* mutant of ErrDoHistory: the failure is counted whatever DoHistory returns
ErrDoHistoryAlwaysCounts(t) ==
    /\ tasks[t].pc = "errhist"
    /\ \E r \in HistoryFailResults :
          /\ RecordFailure(r)
          /\ tasks' = Upd(t, [pc |-> "errcount",
                              nFail |-> tasks[t].nFail + 1,
                              nFailTrue |-> tasks[t].nFailTrue + (IF r THEN 1 ELSE 0)])
    /\ UNCHANGED << runVars, loopVars, slotVars, pipeVars, succCount,
                    failCount, crashed, pauseVars, seen >>

\* Process, fetch error: if self.Spider.DoHistory(req, false) {...}; return
ErrDoHistory(t) ==
    /\ tasks[t].pc = "errhist"
    /\ \E r \in HistoryFailResults :
          /\ RecordFailure(r)
          /\ tasks' = Upd(t, [pc |-> IF r THEN "errcount" ELSE "free",
                              nFail |-> tasks[t].nFail + 1,
                              nFailTrue |-> tasks[t].nFailTrue + (IF r THEN 1 ELSE 0)])
    /\ UNCHANGED << runVars, loopVars, slotVars, pipeVars, succCount,
                    failCount, crashed, pauseVars, seen >>

\* Process, fetch error: cache.PageFailCount(); return
ErrFailCount(t) ==
    /\ tasks[t].pc = "errcount"
    /\ failCount' = failCount + 1
    /\ tasks' = Upd(t, [pc |-> "free", failInc |-> tasks[t].failInc + 1])
    /\ UNCHANGED << runVars, loopVars, srcVars, slotVars, pipeVars, succCount,
                    hist, crashed, pauseVars, seen >>

\* Process: ctx.Parse(req.GetRuleName()), which returns or panics
Parse(t) ==
    /\ tasks[t].pc = "parse"
    /\ \/ /\ tasks' = Upd(t, [pc |-> "succhist", parsed |-> TRUE])
          /\ seen' = seen
       \/ \E p \in Payloads :
             /\ tasks' = Upd(t, [pc |-> "recover", parsed |-> TRUE,
                                 panic |-> p, raisedIn |-> "parse"])
             /\ seen' = Dirty(seen)
    /\ UNCHANGED << runVars, loopVars, srcVars, slotVars, pipeVars, statVars,
                    crashed, pauseVars >>

\* mutant of SuccDoHistory: the success is counted and the results are
\* pulled without the DoHistory(req, true) call
SuccDoHistorySkipped(t) ==
    /\ tasks[t].pc = "succhist"
    /\ tasks' = Upd(t, [pc |-> "succcount"])
    /\ UNCHANGED << runVars, loopVars, srcVars, slotVars, pipeVars, statVars,
                    crashed, pauseVars, seen >>

\* Process: self.Spider.DoHistory(req, true)
SuccDoHistory(t) ==
    /\ tasks[t].pc = "succhist"
    /\ hist' = [hist EXCEPT !.succ = @ + 1]
    /\ tasks' = Upd(t, [pc |-> "succcount", nSucc |-> tasks[t].nSucc + 1])
    /\ UNCHANGED << runVars, loopVars, srcVars, slotVars, pipeVars, succCount,
                    failCount, crashed, pauseVars, seen >>

\* Process: cache.PageSuccCount(); then ctx.PullItems() and ctx.PullFiles()
\* give what the parse extracted
SuccCount(t) ==
    /\ tasks[t].pc = "succcount"
    /\ succCount' = succCount + 1
    /\ \E n \in 0..MaxItems, m \in 0..MaxFiles :
          /\ tasks' = Upd(t, [pc |-> "forward", succInc |-> tasks[t].succInc + 1,
                              items |-> n, files |-> m])
          /\ seen' = IF n # 1 \/ m # 0 THEN Dirty(seen) ELSE seen
    /\ UNCHANGED << runVars, loopVars, srcVars, slotVars, pipeVars, failCount,
                    hist, crashed, pauseVars >>

\* mutant of CollectData: the range loop passes over the item without the
\* sink call
CollectDataSkipsCall(t) ==
    /\ tasks[t].pc = "forward"
    /\ tasks[t].items > 0
    /\ tasks' = Upd(t, [items |-> tasks[t].items - 1])
    /\ UNCHANGED << runVars, loopVars, srcVars, slotVars, pipeVars, statVars,
                    crashed, pauseVars, seen >>

\* Process: self.Pipeline.CollectData(item) for the next item of the range
\* loop; the sink takes it or panics, which abandons the rest
CollectData(t) ==
    /\ tasks[t].pc = "forward"
    /\ tasks[t].items > 0
    /\ lateCollect' = (lateCollect \/ pipeState # "started")
    /\ \/ /\ tasks' = Upd(t, [items |-> tasks[t].items - 1, forwarded |-> TRUE])
          /\ seen' = IF seen.dirty THEN seen ELSE [seen EXCEPT !.data = @ + 1]
       \/ \E p \in SinkPayloads :
             /\ tasks' = Upd(t, [pc |-> "recover", panic |-> p, raisedIn |-> "sink",
                                 items |-> 0, files |-> 0])
             /\ seen' = Dirty(seen)
    /\ UNCHANGED << runVars, loopVars, srcVars, slotVars, pipeState, pipeStops,
                    statVars, crashed, pauseVars >>

\* Process: self.Pipeline.CollectFile(f) for the next file of the range
\* loop, entered when the item loop is over; the sink takes it or panics
CollectFile(t) ==
    /\ tasks[t].pc = "forward"
    /\ tasks[t].items = 0
    /\ tasks[t].files > 0
    /\ lateCollect' = (lateCollect \/ pipeState # "started")
    /\ \/ /\ tasks' = Upd(t, [files |-> tasks[t].files - 1, forwarded |-> TRUE])
          /\ seen' = seen
       \/ \E p \in SinkPayloads :
             /\ tasks' = Upd(t, [pc |-> "recover", panic |-> p, raisedIn |-> "sink",
                                 items |-> 0, files |-> 0])
             /\ seen' = Dirty(seen)
    /\ UNCHANGED << runVars, loopVars, srcVars, slotVars, pipeState, pipeStops,
                    statVars, crashed, pauseVars >>

\* Process: both loops are over; spider.PutContext(ctx); return
PutContext(t) ==
    /\ tasks[t].pc = "forward"
    /\ tasks[t].items = 0
    /\ tasks[t].files = 0
    /\ tasks' = Upd(t, [pc |-> "free", pooled |-> tasks[t].pooled + 1])
    /\ UNCHANGED << runVars, loopVars, srcVars, slotVars, pipeVars, statVars,
                    crashed, pauseVars, seen >>

\* mutant of Recover: every recovered panic is recorded as a failure, the
\* marker too
RecoverWithoutMarkerTest(t) ==
    /\ tasks[t].pc = "recover"
    /\ \E r \in HistoryFailResults :
          /\ RecordFailure(r)
          /\ tasks' = Upd(t, [pc |-> IF r THEN "reccount" ELSE "free",
                              recovered |-> TRUE,
                              nFail |-> tasks[t].nFail + 1,
                              nFailTrue |-> tasks[t].nFailTrue + (IF r THEN 1 ELSE 0)])
    /\ UNCHANGED << runVars, loopVars, slotVars, pipeVars, succCount,
                    failCount, crashed, pauseVars, seen >>

\* Process: the deferred func: recover(), the test for the cancellation
\* marker, and DoHistory(req, false) for any other payload
Recover(t) ==
    /\ tasks[t].pc = "recover"
    /\ IF IsActiveStop(tasks[t].panic)
       THEN /\ tasks' = Upd(t, [pc |-> "free", recovered |-> TRUE,
                                swallowed |-> TRUE])
            /\ UNCHANGED << srcVars, hist >>
       ELSE \E r \in HistoryFailResults :
               /\ RecordFailure(r)
               /\ tasks' = Upd(t, [pc |-> IF r THEN "reccount" ELSE "free",
                                   recovered |-> TRUE,
                                   nFail |-> tasks[t].nFail + 1,
                                   nFailTrue |-> tasks[t].nFailTrue + (IF r THEN 1 ELSE 0)])
    /\ UNCHANGED << runVars, loopVars, slotVars, pipeVars, succCount,
                    failCount, crashed, pauseVars, seen >>

\* Process, recovered fault: cache.PageFailCount()
RecFailCount(t) ==
    /\ tasks[t].pc = "reccount"
    /\ failCount' = failCount + 1
    /\ tasks' = Upd(t, [pc |-> "free", failInc |-> tasks[t].failInc + 1])
    /\ UNCHANGED << runVars, loopVars, srcVars, slotVars, pipeVars, succCount,
                    hist, crashed, pauseVars, seen >>

\* mutant of FreeOne: the release is a plain last statement of the goroutine
\* instead of a deferred call, so it is skipped when Process panicked
FreeOneNotDeferred(t) ==
    /\ tasks[t].pc = "free"
    /\ released' = IF tasks[t].panic = NoPanic THEN released + 1 ELSE released
    /\ tasks' = [tasks EXCEPT ![t] = Idle]
    /\ UNCHANGED << runVars, loopVars, srcVars, pulled, acquired, spawned,
                    slotCap, pipeVars, statVars, crashed, pauseVars, seen >>

\* mutant of FreeOne: the goroutine releases twice, by the deferred call and
\* by a call at its end
FreeOneTwice(t) ==
    /\ tasks[t].pc = "free"
    /\ released' = released + 2
    /\ tasks' = [tasks EXCEPT ![t] = Idle]
    /\ UNCHANGED << runVars, loopVars, srcVars, pulled, acquired, spawned,
                    slotCap, pipeVars, statVars, crashed, pauseVars, seen >>

\* the goroutine's deferred self.FreeOne(), its last action; a panic that
\* Process did not recover then ends the process
FreeOne(t) ==
    /\ tasks[t].pc = "free"
    /\ released' = released + 1
    /\ IF Panicking(tasks[t])
       THEN /\ crashed' = TRUE
            /\ runPc' = "dead"
            /\ loopPc' = "dead"
            /\ tasks' = [u \in TaskIds |-> Idle]
       ELSE /\ tasks' = [tasks EXCEPT ![t] = Idle]
            /\ UNCHANGED << crashed, runPc, loopPc >>
    /\ UNCHANGED << lastPull, lastCanStop, pullSaw, slept, delay, srcVars, pulled,
                    acquired, spawned, slotCap, pipeVars, statVars, seen,
                    pauseVars >>

\* ------------------------------------------------------ the specification
RunThread ==
    \/ PipelineStart
    \/ LaunchLoop
    \/ SpiderStart
    \/ Produce
    \/ SpiderStartReturn
    \/ RunJoin
    \/ PipelineStop

DispatchLoop ==
    \/ GetOne
    \/ CheckCanStop
    \/ UseOne
    \/ Spawn
    \/ Sleep
    \/ Defer

TaskStep(t) ==
    \/ Download(t)
    \/ ErrDoHistory(t)
    \/ ErrFailCount(t)
    \/ Parse(t)
    \/ SuccDoHistory(t)
    \/ SuccCount(t)
    \/ CollectData(t)
    \/ CollectFile(t)
    \/ PutContext(t)
    \/ Recover(t)
    \/ RecFailCount(t)
    \/ FreeOne(t)

Next ==
    \/ RunThread
    \/ DispatchLoop
    \/ \E t \in TaskIds : TaskStep(t)
    \/ Stop

Spec == Init /\ [][Next]_vars

\* a step of the engine's own goroutines
EngineStep ==
    \/ RunThread
    \/ DispatchLoop
    \/ \E t \in TaskIds : TaskStep(t)

\* the Go scheduler does not leave every runnable goroutine waiting for
\* ever; Stop is a call from outside and is never forced
FairSpec ==
    /\ Spec
    /\ WF_vars(EngineStep)

\* the pause times an engine may be initialised with: milliseconds, and
\* int64 values near the top of the type, which count multiples of 2^43
\* milliseconds: 2^61, 2^62, 2^62 + 2^44 and 2^63 - 2^44
PauseInputs ==
    ({"ms"} \X ((0 .. MaxPause) \cup {1000}))
       \cup ({"2^43ms"} \X { Int64Span \div 8, Int64Span \div 4,
                              Int64Span \div 4 + 2, Int64Span \div 2 - 2 })

\* the engine after New and Init with any of the pause times
PauseInit ==
    /\ New
    /\ \E in \in PauseInputs :
          /\ unit = in[1]
          /\ pausetime = in[2]
          /\ pause = InitPause(in[2])

\* Run on a source that is given nothing to enqueue: every pull is empty,
\* CanStop is false, and the loop sleeps once an iteration
PauseNext ==
    \/ PipelineStart
    \/ LaunchLoop
    \/ GetOne
    \/ CheckCanStop
    \/ Sleep

PauseSpec == PauseInit /\ [][PauseNext]_vars

\* ------------------------------------------------------------ the claims
\* the cancellation marker as Parse raises it: panic(spider.ACTIVE_STOP)
Marker == [isString |-> TRUE, val |-> ACTIVE_STOP]

\* the terminal bookkeeping outcomes a Process invocation has produced
Outcomes(task) ==
    task.nSucc + task.nFail + (IF task.swallowed THEN 1 ELSE 0)

\* tasks between a DoHistory call and the counter increment that follows it
AboutToCountFail == { t \in TaskIds : tasks[t].pc \in {"errcount", "reccount"} }
AboutToCountSucc == { t \in TaskIds : tasks[t].pc = "succcount" }

\* C1: when Process has returned (the task is about to release its slot),
\* exactly one of success recorded, failure recorded, marker swallowed has
\* happened for its request
C1_ExactlyOneOutcome ==
    \A t \in TaskIds : tasks[t].pc = "free" => Outcomes(tasks[t]) = 1

\* C2: every pulled request gets one acquire, every spawned task holds one
\* slot until its last action releases it: released <= acquired always, each
\* task in flight accounts for exactly one held slot, and with no task in
\* flight nothing is held
C2_SlotsPaired ==
    /\ released <= acquired
    /\ acquired = pulled - (IF loopPc = "use" THEN 1 ELSE 0)
    /\ spawned = acquired - (IF loopPc = "spawn" THEN 1 ELSE 0)
    /\ acquired - released = Cardinality(InFlight) + (acquired - spawned)
    /\ (InFlight = {} /\ loopPc # "spawn") => released = acquired

\* C2 witness: a task that swallowed the marker is about to release its slot
\* after another task already released
C2_Witness ==
    \E t \in TaskIds :
        tasks[t].pc = "free" /\ tasks[t].swallowed /\ released >= 1

\* C3: the loop has left its for only from an iteration whose pull was empty
\* and whose CanStop was true; an iteration that pulled a request goes on to
\* acquire, spawn and sleep, and an empty pull with CanStop false sleeps
C3_ExitOnlyWhenEmptyAndStoppable ==
    /\ loopPc \in {"defer", "closed"} => (lastPull = "nil" /\ lastCanStop)
    /\ lastPull = "req" => loopPc \in {"use", "spawn", "sleep"}
    /\ (lastPull = "nil" /\ ~lastCanStop) => loopPc \in {"canstop", "sleep"}

\* C3 witness: a request pulled in the iteration after an empty pull that
\* did not stop the loop
C3_Witness ==
    loopPc = "use" /\ lastPull = "req" /\ pullSaw.empty

\* C4: the pipeline is stopped only after the loop has exited, its Defer has
\* returned and every spawned task has finished and released; no collect
\* call is made before Pipeline.Start or after Pipeline.Stop
C4_SinkStoppedAfterDrain ==
    /\ runPc \in {"stopsink", "done"} =>
          /\ loopPc = "closed"
          /\ InFlight = {}
          /\ released = acquired
          /\ spawned = acquired
    /\ pipeState = "stopped" => runPc = "done"
    /\ ~lateCollect

\* C4 witness: Run has stopped the pipeline after two items were forwarded
C4_Witness ==
    pipeState = "stopped" /\ seen.data = 2

\* C5: once Stop has been called with tasks in flight, Run eventually
\* returns, and when it has, no slot is held and the pipeline was stopped
\* exactly once
C5_StopDrainsAndReturns ==
    /\ seen.stopInFlight ~> runPc = "done"
    /\ [](( seen.stopInFlight /\ runPc = "done") =>
             /\ acquired = released
             /\ InFlight = {}
             /\ pipeStops = 1
             /\ pipeState = "stopped")

\* C5 witness: Run has returned in a run where Stop came with tasks in flight
C5_Witness ==
    seen.stopInFlight /\ runPc = "done" /\ released >= 1

\* C6: a task whose fetch failed never parses, records success, counts a
\* success or forwards anything; it calls DoHistory(req, false) once and
\* counts one failure exactly when that call returned true
C6_FetchErrorPath ==
    \A t \in TaskIds : tasks[t].fetchErr =>
        /\ tasks[t].pc \in {"errhist", "errcount", "free"}
        /\ ~tasks[t].parsed
        /\ tasks[t].nSucc = 0
        /\ tasks[t].succInc = 0
        /\ ~tasks[t].forwarded
        /\ tasks[t].panic = NoPanic
        /\ tasks[t].nFail = (IF tasks[t].pc = "errhist" THEN 0 ELSE 1)
        /\ tasks[t].failInc = (IF tasks[t].pc = "free" THEN tasks[t].nFailTrue ELSE 0)
        /\ tasks[t].pc = "errcount" => tasks[t].nFailTrue = 1

\* C6 witness: a fetch error whose DoHistory returned true has been counted
C6_Witness ==
    \E t \in TaskIds :
        tasks[t].fetchErr /\ tasks[t].pc = "free" /\ tasks[t].failInc = 1

\* C7: a task whose Parse raised the marker does no bookkeeping and forwards
\* nothing; the marker is recovered, not re-raised, so the process lives and
\* the task goes on to release its slot
C7_CancellationSwallowed ==
    /\ ~crashed
    /\ \A t \in TaskIds : (tasks[t].raisedIn = "parse" /\ tasks[t].panic = Marker) =>
          /\ tasks[t].pc \in {"recover", "free"}
          /\ tasks[t].nSucc = 0
          /\ tasks[t].nFail = 0
          /\ tasks[t].succInc = 0
          /\ tasks[t].failInc = 0
          /\ ~tasks[t].forwarded
          /\ tasks[t].pc = "free" => (tasks[t].recovered /\ tasks[t].swallowed)

\* C7 witness: the loop pulled the next request after a task swallowed the
\* marker
C7_Witness ==
    loopPc = "use" /\ lastPull = "req" /\ pullSaw.swallow

\* C8: a task whose Parse panicked with any other payload, string or not,
\* ends like a fetch error: one DoHistory(req, false), one failure counted
\* exactly when it returned true, no success, nothing forwarded; the panic
\* is recovered, so the process lives
C8_FaultRecoveredAsFailure ==
    /\ ~crashed
    /\ \A t \in TaskIds :
          (tasks[t].raisedIn = "parse" /\ tasks[t].panic \notin {Marker, NoPanic}) =>
             /\ tasks[t].pc \in {"recover", "reccount", "free"}
             /\ tasks[t].nSucc = 0
             /\ tasks[t].succInc = 0
             /\ ~tasks[t].forwarded
             /\ ~tasks[t].swallowed
             /\ tasks[t].nFail = (IF tasks[t].pc = "recover" THEN 0 ELSE 1)
             /\ tasks[t].recovered = (tasks[t].pc # "recover")
             /\ tasks[t].failInc = (IF tasks[t].pc = "free" THEN tasks[t].nFailTrue ELSE 0)
             /\ tasks[t].pc = "reccount" => tasks[t].nFailTrue = 1

\* C8 witness: a non-string panic of Parse was recorded and counted as a
\* failure, and the loop pulled the next request after a recovered fault
C8_Witness ==
    /\ loopPc = "use" /\ lastPull = "req" /\ pullSaw.fault
    /\ \E t \in TaskIds :
          /\ tasks[t].pc = "free"
          /\ tasks[t].raisedIn = "parse"
          /\ ~tasks[t].panic.isString
          /\ tasks[t].failInc = 1

\* C9: the failure counter is the number of DoHistory(req, false) calls that
\* returned true and the success counter the number of DoHistory(req, true)
\* calls, up to the tasks that have made the call and not yet counted it
C9_CountersMatchHistory ==
    /\ failCount = hist.failTrue - Cardinality(AboutToCountFail)
    /\ succCount = hist.succ - Cardinality(AboutToCountSucc)

\* C9 witness: a failed attempt on which DoHistory returned false (the
\* request went back to the queue) has ended with the failure counter
\* untouched
C9_Witness ==
    \E t \in TaskIds :
        /\ tasks[t].pc = "free"
        /\ tasks[t].nFail = 1
        /\ tasks[t].nFailTrue = 0
        /\ failCount = 0
        /\ pending = 1

\* C10: a Run that has returned with every fetch and parse succeeding, one
\* item and no file per Context and no Stop made one CollectData call per
\* request the source yielded, counted that many successes and no failure
C10_AllSucceed ==
    (runPc = "done" /\ ~seen.dirty) =>
        /\ seen.data = produced
        /\ succCount = produced
        /\ hist.succ = produced
        /\ failCount = 0
        /\ pending = 0

\* C10 witness: such a Run of two requests has returned
C10_Witness ==
    runPc = "done" /\ ~seen.dirty /\ produced = 2

\* what crawler.Init and sleep are to compute from the pause time, in
\* unbounded integers: base, spread, and a sleeptime of base + r with
\* 0 <= r < spread; the draw does not fault
PauseAsComputed ==
    LET base   == pausetime \div 2
        spread == IF base > 0 THEN base * 3 ELSE 1
    IN  /\ pause = << base, spread >>
        /\ pause[2] >= 1
        /\ ~crashed
        /\ delay # << >> => (base <= delay[1] /\ delay[1] < base + spread)

\* the two pause times the text works out, in milliseconds
PauseExamples ==
    /\ (unit = "ms" /\ pausetime = 0) =>
          (pause = << 0, 1 >> /\ delay \in { << >>, << 0 >> })
    /\ (unit = "ms" /\ pausetime = 1000) =>
          /\ pause = << 500, 1500 >>
          /\ delay # << >> => delay[1] \in 500 .. 1999

\* the pause times of at most 2^62 milliseconds
PauseFits ==
    unit = "ms" \/ pausetime <= Int64Span \div 4

\* C11 as stated: for every pause time P >= 0 the engine holds base = P/2
\* and spread = base*3 (1 when base is 0), spread >= 1, and every sleeptime
\* lies in [base, base + spread); [0, 1) for P = 0, [500, 2000) for P = 1000
C11_PauseAndDelay ==
    PauseAsComputed /\ PauseExamples

\* C11, amended: the same for every pause time P with 0 <= P <= 2^62, the
\* pause times whose base + spread does not pass the greatest int64
C11_PauseAndDelayInInt64 ==
    PauseFits => (PauseAsComputed /\ PauseExamples)

\* C11 witness: the loop of an engine with a pause time of 1000 has slept
\* the longest sleeptime of its range
C11_Witness ==
    unit = "ms" /\ pausetime = 1000 /\ loopPc = "pull" /\ delay = << 1999 >>

\* C12: the loop is at a pull only before its first pull or with exactly
\* one sleep since the pull before; inside an iteration, and when the loop
\* has left its for, no sleep was made since the iteration's pull
C12_OneSleepBetweenPulls ==
    /\ loopPc = "off" => slept = -1
    /\ loopPc = "pull" => slept \in {-1, 1}
    /\ loopPc \in {"canstop", "use", "spawn", "sleep", "defer", "closed"} => slept = 0
    /\ slept = -1 => (lastPull = "none" /\ pulled = 0 /\ delay = << >>)

\* C12 witness: the loop is at its next pull, one sleep after an empty pull
\* that did not end it, in a run that admitted a request before
C12_Witness ==
    loopPc = "pull" /\ slept = 1 /\ pullSaw.empty /\ spawned >= 1

\* C13: a step that raises the source's stop signal is a call of Stop, and
\* it changes nothing else: not the positions of Run and of the loop, not
\* the tasks, the queue, the slot accounting, the pipeline, the counters or
\* the pause configuration
C13_StopOnlySignalsSource ==
    [][ stopped' # stopped =>
           /\ stopped'
           /\ UNCHANGED << runVars, loopVars, tasks, pending, produced, slotVars,
                           pipeVars, statVars, crashed, pauseVars >> ]_vars

\* C13 witness: Stop was called with tasks in flight and the loop in the
\* middle of an iteration; the loop is where it was, the pipeline is still
\* started and a slot is still held
C13_Witness ==
    /\ stopped /\ seen.stopInFlight
    /\ loopPc = "sleep" /\ lastPull = "req"
    /\ pipeState = "started"
    /\ acquired - released >= 1

\* C14: a Process that has returned (the task is about to release its slot)
\* has given its Context back to the pool exactly once, whatever its outcome:
\* success, fetch error, recovered fault or swallowed marker; no Context is
\* ever given back twice
C14_ContextPooledOnEveryOutcome ==
    \A t \in TaskIds :
        /\ tasks[t].pooled <= 1
        /\ tasks[t].pc = "free" => tasks[t].pooled = 1

\* C15 as stated: as long as Run has not invoked Spider.Start, the loop has
\* made no pull and no CanStop check
C15_SourceStartedBeforeFirstPull ==
    runPc \in {"idle", "launch", "start"} =>
        (slept = -1 /\ loopPc \in {"off", "pull"})

\* C15, amended: Run starts the pipeline, then launches the loop, then
\* invokes Spider.Start: the loop runs only once the pipeline was started,
\* Start is invoked only once the loop was launched, and nothing is
\* enqueued or pulled before the launch
C15_SinkThenLoopThenSource ==
    /\ loopPc # "off" => (pipeState # "new" /\ runPc \notin {"idle", "launch"})
    /\ runPc \in {"starting", "wait", "stopsink", "done"} => loopPc # "off"
    /\ loopPc = "off" => (produced = 0 /\ slept = -1)

\* C15 witness: the loop has pulled, found nothing and asked CanStop while
\* Run has not yet invoked Spider.Start
C15_Witness ==
    runPc = "start" /\ loopPc = "sleep" /\ lastPull = "nil" /\ ~lastCanStop

\* the steps of task t on the success path, told by what they change; a
\* collect call that returns leaves the task in its loops with one item or
\* file less
DidSuccHistory(t) == tasks'[t].nSucc = tasks[t].nSucc + 1
DidSuccCount(t)   == tasks'[t].succInc = tasks[t].succInc + 1
DidCollectData(t) ==
    /\ tasks[t].pc = "forward" /\ tasks'[t].pc = "forward"
    /\ tasks'[t].items = tasks[t].items - 1
DidCollectFile(t) ==
    /\ tasks[t].pc = "forward" /\ tasks'[t].pc = "forward"
    /\ tasks'[t].files = tasks[t].files - 1
DidPutContext(t)  == tasks'[t].pooled = tasks[t].pooled + 1

C17_NoFailureAfterSuccess ==
    \A t \in TaskIds :
        tasks[t].nSucc >= 1 => (tasks[t].nFail = 0 /\ tasks[t].failInc = 0)

\* C18: the loop never waits for a task it spawned: with tasks in flight or
\* not, it can take its next step at the pull, at the CanStop test, at the
\* go statement and at the sleep; it can wait only in UseOne, while the
\* source's slots are all held, and in Defer, while a slot is held
C18_LoopWaitsOnlyInAcquireAndDrain ==
    /\ loopPc \in {"pull", "canstop", "spawn", "sleep"} => ENABLED DispatchLoop
    /\ loopPc = "use" => (ENABLED DispatchLoop <=> acquired - released < slotCap)
    /\ loopPc = "defer" => (ENABLED DispatchLoop <=> acquired = released)

\* C18 witness: two tasks were spawned and the second is over while the
\* first has not begun its download; the loop has gone on to its sleep
C18_Witness ==
    /\ spawned = 2
    /\ tasks[1].pc = "start"
    /\ tasks[2].pc = "idle"
    /\ released = 1
    /\ loopPc = "sleep"

\* C19: the slots held and the tasks in flight never exceed the source's
\* budget; when the loop is in UseOne with the whole budget held, every
\* held slot belongs to a task in flight and the loop can take no step (no
\* pull, no spawn, no sleep) until one of them releases
C19_AcquireBoundsInFlight ==
    /\ acquired - released <= slotCap
    /\ Cardinality(InFlight) <= slotCap
    /\ (loopPc = "use" /\ acquired - released = slotCap) =>
          /\ ~ENABLED DispatchLoop
          /\ Cardinality(InFlight) = slotCap
          /\ \E t \in InFlight : ENABLED TaskStep(t)

\* C19 witness: the loop has pulled a request and waits in UseOne while the
\* whole budget is held by tasks in flight
C19_Witness ==
    /\ loopPc = "use" /\ lastPull = "req"
    /\ acquired - released = slotCap
    /\ \E t \in TaskIds : tasks[t].pc = "parse"

\* the tasks that were spawned and have not finished Process
InProcess == { t \in TaskIds : tasks[t].pc \notin {"idle", "free"} }

\* C20: the tasks that have not finished Process are never more than the
\* slots acquired and not released; when Defer may return or has returned
\* (no slot is held), no task is running and none is still to be started
C20_DrainCoversEveryTask ==
    /\ Cardinality(InProcess) <= acquired - released
    /\ ((loopPc = "defer" /\ acquired = released) \/ loopPc = "closed") =>
          /\ InFlight = {}
          /\ spawned = acquired
          /\ spawned = pulled

\* C20 witness: Defer has returned after two tasks were spawned, ran
\* Process and released
C20_Witness ==
    loopPc = "closed" /\ spawned = 2 /\ released = 2 /\ runPc = "wait"

====
